---- MODULE Spec2Model ----
(***************************************************************************)
(* The product/market ledger of MarktComparator (src/mCbackend.py).        *)
(*                                                                         *)
(* markets and file are the program's state.  pc is the caller's position: *)
(* "idle" between two calls, "returned" when a call has come back and its  *)
(* result (ret), its arguments (call) and the state it started from        *)
(* (before, fileBefore) are there to be looked at; fault tells whether the *)
(* storage failed under the write of that call.  dlg is the modal dialog   *)
(* of src/wxP_GUI.py that is open, with its widgets' values.               *)
(*                                                                         *)
(* A Python str is a sequence of one-character strings, so that            *)
(* str.lower() and the substring test `x in s` are computed.  A Python     *)
(* dict is a sequence of [key, val] records with distinct keys, in         *)
(* insertion order.  The JSON document is a sequence of tokens.            *)
(***************************************************************************)
EXTENDS Integers, Sequences, FiniteSets, TLC

VARIABLES markets, file, pc, call, ret, before, fileBefore, fault, dlg

vars == <<markets, file, pc, call, ret, before, fileBefore, fault, dlg>>

(* ------------------------------ bounds --------------------------------- *)

MaxPrice == 2
MaxEntries == 2
MaxListLen == 1
MaxItems == 2

(* ------------------------------ inputs --------------------------------- *)

all == <<"a", "l", "l">>

VendorNames == { <<"A">>, <<"B", "m">>, <<"A", "l", "l">> }

ProductNames == { <<"m">>, <<"b">> }

Prices == 1..MaxPrice

StrTargets == VendorNames \cup {all}

\* the names find_product is asked for: "M" differs from "m" by its case only
FindNames == ProductNames \cup { <<"M">> }

ListTargets == UNION { [1..n -> VendorNames] : n \in 0..MaxListLen }

(* --------------------------- Python str -------------------------------- *)

LowerChar(c) ==
    CASE c = "A" -> "a"
      [] c = "B" -> "b"
      [] c = "L" -> "l"
      [] c = "M" -> "m"
      [] OTHER -> c

Lower(s) == [i \in 1..Len(s) |-> LowerChar(s[i])]

IsSubstring(x, s) ==
    \E i \in 0..(Len(s) - Len(x)) : SubSeq(s, i + 1, i + Len(x)) = x

Strip(s) ==
    LET keep == {i \in 1..Len(s) : s[i] # " "}
    IN  IF keep = {} THEN <<>>
        ELSE SubSeq(s, CHOOSE i \in keep : \A j \in keep : i <= j,
                       CHOOSE i \in keep : \A j \in keep : j <= i)

(* --------------------------- Python dict ------------------------------- *)

DictHas(d, k) == \E i \in 1..Len(d) : d[i].key = k

DictGet(d, k) == d[CHOOSE i \in 1..Len(d) : d[i].key = k].val

DictSet_MoveToEnd(d, k, v) ==
    Append(SelectSeq(d, LAMBDA e : e.key # k), [key |-> k, val |-> v])

DictSet(d, k, v) ==
    IF DictHas(d, k)
    THEN [i \in 1..Len(d) |-> IF d[i].key = k THEN [key |-> k, val |-> v] ELSE d[i]]
    ELSE Append(d, [key |-> k, val |-> v])

DictDel(d, k) == SelectSeq(d, LAMBDA e : e.key # k)

DictKeys(d) == [i \in 1..Len(d) |-> d[i].key]

(* ------------------------------ JSON ----------------------------------- *)

TokOpen == [t |-> "{", s |-> <<>>, n |-> 0]

TokClose == [t |-> "}", s |-> <<>>, n |-> 0]

TokKey(s) == [t |-> "key", s |-> s, n |-> 0]

TokNum(n) == [t |-> "num", s |-> <<>>, n |-> n]

RECURSIVE DumpCatalog_FirstPrice(_, _)
DumpCatalog_FirstPrice(c, i) ==
    IF i > Len(c) THEN <<TokClose>>
    ELSE <<TokKey(c[i].key), TokNum(c[1].val)>> \o DumpCatalog_FirstPrice(c, i + 1)

RECURSIVE DumpCatalog(_, _)
DumpCatalog(c, i) ==
    IF i > Len(c) THEN <<TokClose>>
    ELSE <<TokKey(c[i].key), TokNum(c[i].val)>> \o DumpCatalog(c, i + 1)

RECURSIVE DumpLedger(_, _)
DumpLedger(m, i) ==
    IF i > Len(m) THEN <<TokClose>>
    ELSE <<TokKey(m[i].key), TokOpen>> \o DumpCatalog(m[i].val, 1) \o DumpLedger(m, i + 1)

json_dump(m) == <<TokOpen>> \o DumpLedger(m, 1)

RECURSIVE ParseCatalog(_, _, _)
ParseCatalog(t, i, acc) ==
    IF t[i].t = "}" THEN [val |-> acc, next |-> i + 1]
    ELSE ParseCatalog(t, i + 2, DictSet(acc, t[i].s, t[i + 1].n))

RECURSIVE ParseLedger(_, _, _)
ParseLedger(t, i, acc) ==
    IF t[i].t = "}" THEN acc
    ELSE LET c == ParseCatalog(t, i + 2, <<>>)
         IN  ParseLedger(t, c.next, DictSet(acc, t[i].s, c.val))

json_load(t) == ParseLedger(t, 2, <<>>)

update_json(m) == json_dump(m)

\* The documents a failed update_json can leave: open() failed and the
\* document is as it was, or open() truncated the document and the write
\* stopped, here before its first or before its last token.
update_json_failed(f, m) ==
    {f} \cup { SubSeq(json_dump(m), 1, k) : k \in {0, Len(json_dump(m)) - 1} }

(* ------------------------- return values ------------------------------- *)

RetNone == [exc |-> "", kind |-> "None", b |-> FALSE, l |-> <<>>]

RetBool(b) == [exc |-> "", kind |-> "bool", b |-> b, l |-> <<>>]

RetList(l) == [exc |-> "", kind |-> "list", b |-> FALSE, l |-> l]

Raise(e) == [exc |-> e, kind |-> "raise", b |-> FALSE, l |-> <<>>]

\* update_product and delete_product let an error of update_json through:
\* neither has a handler for it.
Propagate_Swallow(exc, value) == value

Propagate(exc, value) == IF exc = "" THEN value ELSE Raise(exc)

(* --------------------------- the calls --------------------------------- *)

NoCall ==
    [fn |-> "load", product |-> <<>>, in_market |-> <<>>, isList |-> FALSE,
     targets |-> <<>>, cost |-> 0]

Call(fn, product, in_market, cost) ==
    [fn |-> fn, product |-> product, in_market |-> in_market, isList |-> FALSE,
     targets |-> <<>>, cost |-> cost]

CallList(fn, product, targets) ==
    [fn |-> fn, product |-> product, in_market |-> <<>>, isList |-> TRUE,
     targets |-> targets, cost |-> 0]

(* ---------------------------- find_product ----------------------------- *)

RECURSIVE FindInCatalog_IgnoreCase(_, _, _, _)
FindInCatalog_IgnoreCase(current_market, its_products, product, j) ==
    IF j > Len(its_products) THEN <<>>
    ELSE (IF Lower(its_products[j].key) = Lower(product)
          THEN << <<current_market, its_products[j].val>> >>
          ELSE <<>>)
         \o FindInCatalog_IgnoreCase(current_market, its_products, product, j + 1)

RECURSIVE FindInCatalog(_, _, _, _)
FindInCatalog(current_market, its_products, product, j) ==
    IF j > Len(its_products) THEN <<>>
    ELSE (IF its_products[j].key = product
          THEN << <<current_market, its_products[j].val>> >>
          ELSE <<>>)
         \o FindInCatalog(current_market, its_products, product, j + 1)

RECURSIVE FindLoop_Prepend(_, _, _)
FindLoop_Prepend(m, product, i) ==
    IF i > Len(m) THEN <<>>
    ELSE FindLoop_Prepend(m, product, i + 1) \o FindInCatalog(m[i].key, m[i].val, product, 1)

RECURSIVE FindLoop(_, _, _)
FindLoop(m, product, i) ==
    IF i > Len(m) THEN <<>>
    ELSE FindInCatalog(m[i].key, m[i].val, product, 1) \o FindLoop(m, product, i + 1)

find_product(m, product) == FindLoop(m, product, 1)

(* ---------------------------- list_products ---------------------------- *)

RECURSIVE ListCatalog_NoDedupe(_, _, _)
ListCatalog_NoDedupe(market_products, j, listed) ==
    IF j > Len(market_products) THEN listed
    ELSE ListCatalog_NoDedupe(market_products, j + 1,
                              Append(listed, market_products[j].key))

RECURSIVE ListCatalog(_, _, _)
ListCatalog(market_products, j, listed) ==
    IF j > Len(market_products) THEN listed
    ELSE ListCatalog(market_products, j + 1,
                     IF \E k \in 1..Len(listed) : listed[k] = market_products[j].key
                     THEN listed
                     ELSE Append(listed, market_products[j].key))

RECURSIVE ListLoop(_, _, _)
ListLoop(m, i, listed) ==
    IF i > Len(m) THEN listed
    ELSE ListLoop(m, i + 1, ListCatalog(m[i].val, 1, listed))

list_products_EmptyList(m) == RetList(ListLoop(m, 1, <<>>))

list_products(m) ==
    LET listed == ListLoop(m, 1, <<>>)
    IN  IF Len(listed) = 0 THEN RetNone ELSE RetList(listed)

(* ---------------------------- update_product --------------------------- *)

update_product_KeepOld(m, product, in_market, cost) ==
    LET m1 == IF ~DictHas(m, in_market) THEN DictSet(m, in_market, <<>>) ELSE m
        c  == DictGet(m1, in_market)
    IN  DictSet(m1, in_market, IF DictHas(c, product) THEN c ELSE DictSet(c, product, cost))

update_product_Add(m, product, in_market, cost) ==
    LET m1 == IF ~DictHas(m, in_market) THEN DictSet(m, in_market, <<>>) ELSE m
        c  == DictGet(m1, in_market)
    IN  DictSet(m1, in_market,
                DictSet(c, product, IF DictHas(c, product)
                                    THEN DictGet(c, product) + cost ELSE cost))

update_product(m, product, in_market, cost) ==
    LET m1 == IF ~DictHas(m, in_market) THEN DictSet(m, in_market, <<>>) ELSE m
    IN  DictSet(m1, in_market, DictSet(DictGet(m1, in_market), product, cost))

(* ---------------------------- delete_product --------------------------- *)

\* del markets[market][product]; if not markets[market]: del markets[market]
DelEntry_NoPrune(m, market, product) ==
    DictSet(m, market, DictDel(DictGet(m, market), product))

DelEntry(m, market, product) ==
    LET m1 == DictSet(m, market, DictDel(DictGet(m, market), product))
    IN  IF DictGet(m1, market) = <<>> THEN DictDel(m1, market) ELSE m1

\* for market in markets: ... over the keys of the dict being mutated.  The
\* dict iterator raises RuntimeError on the step that follows a change of the
\* dict's size, also when the removed key was the last one.
RECURSIVE DeleteAllLoop(_, _, _, _, _)
DeleteAllLoop(m, keys, i, product, sizeChanged) ==
    IF sizeChanged THEN [m |-> m, exc |-> "RuntimeError"]
    ELSE IF i > Len(keys) THEN [m |-> m, exc |-> ""]
    ELSE LET market == keys[i] IN
         IF IsSubstring(product, market)
         THEN IF ~DictHas(DictGet(m, market), product)
              THEN [m |-> m, exc |-> "KeyError"]
              ELSE LET m1 == DelEntry(m, market, product)
                   IN  DeleteAllLoop(m1, keys, i + 1, product, Len(m1) # Len(m))
         ELSE DeleteAllLoop(m, keys, i + 1, product, FALSE)

DeleteAll(m, product) == DeleteAllLoop(m, DictKeys(m), 1, product, FALSE)

Carries(m, market, product) ==
    DictHas(m, market) /\ DictHas(DictGet(m, market), product)

RECURSIVE Entries(_, _)
Entries(m, i) == IF i > Len(m) THEN 0 ELSE Len(m[i].val) + Entries(m, i + 1)

(* ------------------------------ dialogs -------------------------------- *)

NoDialog ==
    [kind |-> "none", product |-> <<>>, product_name |-> <<>>, market_list |-> <<>>,
     market_remove |-> FALSE, OK_button |-> FALSE, reset_name |-> FALSE,
     name_is_valid |-> FALSE, markets_are_valid |-> FALSE]

\* what the user types into a name field
NameTexts == { <<>>, <<"m">>, <<"B", "m">>, <<"1", "1">> }

Digits == {"1"}

WordChars == {"A", "B", "M", "L", "a", "b", "l", "m", "1"}

\* re.fullmatch("(?!^[\d ()]+$)^^[^()][ \w()]+$", value.strip())
IsValidName(value) ==
    LET t == Strip(value) IN
    /\ Len(t) >= 2
    /\ t[1] \notin {"(", ")"}
    /\ \A i \in 2..Len(t) : t[i] \in WordChars \cup {" ", "(", ")"}
    /\ \E i \in 1..Len(t) : t[i] \notin Digits \cup {" ", "(", ")"}

\* "{market}: {price:0.02f}\u20ac": prices are whole amounts, written by
\* their digits
FormatEntry(market, price) == market \o <<":", " ">> \o <<ToString(price), "E">>

\* current_market_name, current_market_price = entry.split(": ")
\* clean_price = float(current_market_price.rstrip("\u20ac"))
ParseEntry(entry) ==
    LET at    == CHOOSE i \in 1..(Len(entry) - 1) :
                     /\ entry[i] = ":" /\ entry[i + 1] = " "
                     /\ \A j \in 1..(i - 1) : ~(entry[j] = ":" /\ entry[j + 1] = " ")
        text  == SubSeq(entry, at + 2, Len(entry))
        clean == IF text[Len(text)] = "E" THEN SubSeq(text, 1, Len(text) - 1) ELSE text
    IN  [market |-> SubSeq(entry, 1, at - 1),
         price  |-> CHOOSE n \in 0..(MaxPrice + 1) : <<ToString(n)>> = clean]

RemoveAt(list, i) == SubSeq(list, 1, i - 1) \o SubSeq(list, i + 1, Len(list))

\* for entry in dialog.market_list.GetItems(): update_product(name, ...)
RECURSIVE UpdateEntries(_, _, _, _)
UpdateEntries(m, name, items, i) ==
    IF i > Len(items) THEN m
    ELSE UpdateEntries(update_product(m, name, ParseEntry(items[i]).market,
                                      ParseEntry(items[i]).price),
                       name, items, i + 1)

(* ------------------------------ actions -------------------------------- *)

Init ==
    /\ file = <<TokOpen, TokClose>>
    /\ markets = json_load(file)
    /\ pc = "idle"
    /\ call = NoCall
    /\ ret = RetNone
    /\ before = markets
    /\ fileBefore = file
    /\ fault = FALSE
    /\ dlg = NoDialog

\* A call is entered from the idle caller and comes back to it.
Snapshot ==
    /\ pc = "idle"
    /\ dlg.kind = "none"
    /\ pc' = "returned"
    /\ before' = markets
    /\ fileBefore' = file
    /\ fault' = FALSE
    /\ dlg' = dlg

\* The caller has taken the result and is idle again.
Return ==
    /\ pc = "returned"
    /\ pc' = "idle"
    /\ call' = NoCall
    /\ ret' = RetNone
    /\ before' = markets
    /\ fileBefore' = file
    /\ fault' = FALSE
    /\ dlg' = NoDialog
    /\ UNCHANGED <<markets, file>>

UpdateProduct ==
    \E product \in ProductNames, in_market \in VendorNames, cost \in Prices :
        /\ Carries(markets, in_market, product) \/ Entries(markets, 1) < MaxEntries
        /\ markets' = update_product(markets, product, in_market, cost)
        /\ file' = update_json(markets')
        /\ call' = Call("update_product", product, in_market, cost)
        /\ ret' = Propagate("", RetNone)
        /\ Snapshot

DeleteProductAll ==
    \E product \in ProductNames, in_market \in StrTargets :
        /\ Lower(in_market) = all
        /\ LET r == DeleteAll(markets, product) IN
            /\ markets' = r.m
            /\ ret' = IF r.exc = "" THEN RetBool(TRUE) ELSE Raise(r.exc)
        /\ file' = file
        /\ call' = Call("delete_product", product, in_market, 0)
        /\ Snapshot

DeleteProductStr ==
    \E product \in ProductNames, in_market \in StrTargets :
        /\ Lower(in_market) # all
        /\ IF Carries(markets, in_market, product)
           THEN /\ markets' = DelEntry(markets, in_market, product)
                /\ file' = update_json(markets')
                /\ ret' = Propagate("", RetBool(TRUE))
           ELSE /\ markets' = markets
                /\ file' = file
                /\ ret' = RetBool(FALSE)
        /\ call' = Call("delete_product", product, in_market, 0)
        /\ Snapshot

\* in_market.lower() on a list
DeleteProductList ==
    \E product \in ProductNames, targets \in ListTargets :
        /\ markets' = markets
        /\ file' = file
        /\ ret' = Raise("AttributeError")
        /\ call' = CallList("delete_product", product, targets)
        /\ Snapshot

find_product_call_Persist(m, f, product) ==
    [m |-> m, file |-> update_json(m), ret |-> RetList(find_product(m, product))]

\* the whole of find_product: it builds found_in, assigns to no key of
\* markets and does not call update_json
find_product_call(m, f, product) ==
    [m |-> m, file |-> f, ret |-> RetList(find_product(m, product))]

\* the whole of list_products: it builds listed and writes nothing
list_products_call(m, f) ==
    [m |-> m, file |-> f, ret |-> list_products(m)]

FindProduct ==
    \E product \in FindNames :
        /\ LET r == find_product_call(markets, file, product) IN
            /\ markets' = r.m
            /\ file' = r.file
            /\ ret' = r.ret
        /\ call' = Call("find_product", product, <<>>, 0)
        /\ Snapshot

ListProducts ==
    /\ LET r == list_products_call(markets, file) IN
        /\ markets' = r.m
        /\ file' = r.file
        /\ ret' = r.ret
    /\ call' = Call("list_products", <<>>, <<>>, 0)
    /\ Snapshot

Next ==
    \/ UpdateProduct
    \/ DeleteProductAll
    \/ DeleteProductStr
    \/ DeleteProductList
    \/ FindProduct
    \/ ListProducts
    \/ Return

Spec == Init /\ [][Next]_vars

(* ----------------------- a storage that can fail ----------------------- *)

SnapshotFault ==
    /\ pc = "idle"
    /\ dlg.kind = "none"
    /\ dlg' = dlg
    /\ pc' = "returned"
    /\ before' = markets
    /\ fileBefore' = file
    /\ fault' = TRUE

\* update_product whose update_json raises OSError
UpdateProductFault ==
    \E product \in ProductNames, in_market \in VendorNames, cost \in Prices :
        /\ Carries(markets, in_market, product) \/ Entries(markets, 1) < MaxEntries
        /\ markets' = update_product(markets, product, in_market, cost)
        /\ file' \in update_json_failed(file, markets')
        /\ call' = Call("update_product", product, in_market, cost)
        /\ ret' = Propagate("OSError", RetNone)
        /\ SnapshotFault

\* delete_product of one vendor's entry whose update_json raises OSError:
\* `except KeyError` does not take it
DeleteProductStrFault ==
    \E product \in ProductNames, in_market \in StrTargets :
        /\ Lower(in_market) # all
        /\ Carries(markets, in_market, product)
        /\ markets' = DelEntry(markets, in_market, product)
        /\ file' \in update_json_failed(file, markets')
        /\ call' = Call("delete_product", product, in_market, 0)
        /\ ret' = Propagate("OSError", RetBool(TRUE))
        /\ SnapshotFault

\* The OSError is caught nowhere: the run ends with the call that raised it.
NextFault ==
    \/ ~fault /\ UpdateProduct
    \/ ~fault /\ DeleteProductAll
    \/ ~fault /\ DeleteProductStr
    \/ ~fault /\ Return
    \/ UpdateProductFault
    \/ DeleteProductStrFault

SpecFault == Init /\ [][NextFault]_vars

(* --------------------------- NewDialog --------------------------------- *)

\* the backend's state and the caller's position stay as they are
DialogStep == UNCHANGED <<markets, file, pc, call, ret, before, fileBefore, fault>>

\* on_new_button up to ShowModal: NewDialog.__init__
OnNewButton ==
    /\ pc = "idle"
    /\ dlg.kind = "none"
    /\ dlg' = [NoDialog EXCEPT !.kind = "new"]
    /\ DialogStep

\* NewDialog.validate_name on the value the name field now holds
NewValidateName_KeepOK(d, value) ==
    IF ~IsValidName(value)
    THEN [d EXCEPT !.product_name = value, !.reset_name = TRUE,
                   !.name_is_valid = FALSE]
    ELSE [d EXCEPT !.product_name = value, !.reset_name = TRUE,
                   !.name_is_valid = TRUE,
                   !.OK_button = IF d.markets_are_valid THEN TRUE ELSE d.OK_button]

NewValidateName(d, value) ==
    IF ~IsValidName(value)
    THEN [d EXCEPT !.product_name = value, !.reset_name = TRUE,
                   !.name_is_valid = FALSE, !.OK_button = FALSE]
    ELSE [d EXCEPT !.product_name = value, !.reset_name = TRUE,
                   !.name_is_valid = TRUE,
                   !.OK_button = IF d.markets_are_valid THEN TRUE ELSE d.OK_button]

\* the user edits the product name: EVT_TEXT
NewNameEdited ==
    \E value \in NameTexts :
        /\ dlg.kind = "new"
        /\ value # dlg.product_name
        /\ dlg' = NewValidateName(dlg, value)
        /\ DialogStep

\* NewDialog.on_reset_name: Clear() sends EVT_TEXT, so validate_name runs on
\* the empty value before the handler goes on
NewResetName ==
    /\ dlg.kind = "new"
    /\ dlg.reset_name
    /\ dlg' = [NewValidateName(dlg, <<>>) EXCEPT !.reset_name = FALSE,
                                                  !.name_is_valid = FALSE]
    /\ DialogStep

\* NewDialog.on_remove_market with the i-th entry selected.  Without a
\* selection ListBox.Delete refuses the index and nothing changes.
NewRemoveMarket ==
    \E i \in 1..Len(dlg.market_list) :
        /\ dlg.kind = "new"
        /\ dlg.market_remove
        /\ LET list == RemoveAt(dlg.market_list, i) IN
           dlg' = IF Len(list) < 1
                  THEN [dlg EXCEPT !.market_list = list, !.market_remove = FALSE,
                                   !.markets_are_valid = FALSE, !.OK_button = FALSE]
                  ELSE [dlg EXCEPT !.market_list = list]
        /\ DialogStep

\* NewDialog.on_add_market: the add button is enabled by validate_new_market
\* on a valid market name and a valid price
NewAddMarket ==
    \E market \in VendorNames, price \in Prices :
        /\ dlg.kind = "new"
        /\ IsValidName(market)
        /\ Len(dlg.market_list) < MaxItems
        /\ dlg' = [dlg EXCEPT
                     !.market_list = Append(dlg.market_list, FormatEntry(Strip(market), price)),
                     !.market_remove = TRUE,
                     !.markets_are_valid = TRUE,
                     !.OK_button = IF dlg.name_is_valid THEN TRUE ELSE dlg.OK_button]
        /\ DialogStep

\* on_new_button after ShowModal returned wx.ID_OK
on_new_accept_Overwrite(m, f, d) ==
    LET m1 == UpdateEntries(m, d.product_name, d.market_list, 1)
    IN  [m |-> m1, file |-> IF d.market_list = <<>> THEN f ELSE update_json(m1)]

\* if not find_product(name): update_product for every entry of the list
on_new_accept(m, f, d) ==
    IF find_product(m, d.product_name) = <<>>
    THEN LET m1 == UpdateEntries(m, d.product_name, d.market_list, 1)
         IN  [m |-> m1, file |-> IF d.market_list = <<>> THEN f ELSE update_json(m1)]
    ELSE [m |-> m, file |-> f]

NewAccept ==
    /\ pc = "idle"
    /\ dlg.kind = "new"
    /\ dlg.OK_button
    /\ LET r == on_new_accept(markets, file, dlg) IN
        /\ markets' = r.m
        /\ file' = r.file
    /\ call' = Call("on_new_button", dlg.product_name, <<>>, 0)
    /\ ret' = RetNone
    /\ dlg' = [dlg EXCEPT !.kind = "new accepted"]
    /\ pc' = "returned"
    /\ before' = markets
    /\ fileBefore' = file
    /\ fault' = FALSE

\* on_new_button after ShowModal returned wx.ID_CANCEL
NewCancel ==
    /\ dlg.kind = "new"
    /\ dlg' = NoDialog
    /\ DialogStep

NextNew ==
    \/ OnNewButton
    \/ NewNameEdited
    \/ NewResetName
    \/ NewRemoveMarket
    \/ NewAddMarket
    \/ NewAccept
    \/ NewCancel
    \/ Return

SpecNew == Init /\ [][NextNew]_vars

(* --------------------------- EditDialog -------------------------------- *)

\* the product names the main window's list can hold
ListedNames == ProductNames \cup {n \in NameTexts : IsValidName(n)}

RECURSIVE FormatEntries(_, _)
FormatEntries(in_markets, i) ==
    IF i > Len(in_markets) THEN <<>>
    ELSE <<FormatEntry(in_markets[i][1], in_markets[i][2])>>
         \o FormatEntries(in_markets, i + 1)

\* on_edit_button up to ShowModal: EditDialog.__init__ on the markets of the
\* selected product.  A product that no market carries opens no dialog.
OnEditButton ==
    \E product \in ListedNames :
        /\ pc = "idle"
        /\ dlg.kind = "none"
        /\ find_product(markets, product) # <<>>
        /\ LET list == FormatEntries(find_product(markets, product), 1) IN
           dlg' = [NoDialog EXCEPT !.kind = "edit", !.product = product,
                                   !.product_name = product, !.market_list = list,
                                   !.market_remove = ~(Len(list) < 2),
                                   !.OK_button = TRUE]
        /\ DialogStep

\* EditDialog.validate_name on the value the name field now holds
EditValidateName(d, value) ==
    [d EXCEPT !.product_name = value, !.reset_name = TRUE,
              !.OK_button = IsValidName(value)]

\* the user edits the product name: EVT_TEXT
EditNameEdited ==
    \E value \in NameTexts :
        /\ dlg.kind = "edit"
        /\ value # dlg.product_name
        /\ dlg' = EditValidateName(dlg, value)
        /\ DialogStep

\* EditDialog.on_restore_name: SetValue sends EVT_TEXT
EditRestoreName ==
    /\ dlg.kind = "edit"
    /\ dlg.reset_name
    /\ dlg' = [EditValidateName(dlg, dlg.product) EXCEPT !.reset_name = FALSE]
    /\ DialogStep

\* EditDialog.on_remove_market with the i-th entry selected.  Without a
\* selection ListBox.Delete refuses the index and nothing changes.
EditRemoveMarket ==
    \E i \in 1..Len(dlg.market_list) :
        /\ dlg.kind = "edit"
        /\ dlg.market_remove
        /\ LET list == RemoveAt(dlg.market_list, i) IN
           dlg' = [dlg EXCEPT !.market_list = list,
                              !.market_remove = IF Len(list) < 2 THEN FALSE
                                                ELSE dlg.market_remove]
        /\ DialogStep

\* EditDialog.on_add_market
EditAddMarket ==
    \E market \in VendorNames, price \in Prices :
        /\ dlg.kind = "edit"
        /\ IsValidName(market)
        /\ Len(dlg.market_list) < MaxItems
        /\ LET list == Append(dlg.market_list, FormatEntry(Strip(market), price)) IN
           dlg' = [dlg EXCEPT !.market_list = list,
                              !.market_remove = IF Len(list) > 1 THEN TRUE
                                                ELSE dlg.market_remove]
        /\ DialogStep

\* on_edit_button after ShowModal returned wx.ID_OK: delete_product(product),
\* then update_product for every entry of the list.  An error of
\* delete_product leaves the handler before any update_product.
on_edit_accept(m, f, d) ==
    LET r == DeleteAll(m, d.product) IN
    IF r.exc # ""
    THEN [m |-> r.m, file |-> f, ret |-> Raise(r.exc)]
    ELSE LET m1 == UpdateEntries(r.m, d.product_name, d.market_list, 1)
         IN  [m |-> m1,
              file |-> IF d.market_list = <<>> THEN f ELSE update_json(m1),
              ret |-> RetNone]

EditAccept ==
    /\ pc = "idle"
    /\ dlg.kind = "edit"
    /\ dlg.OK_button
    /\ LET r == on_edit_accept(markets, file, dlg) IN
        /\ Entries(r.m, 1) <= MaxEntries
        /\ markets' = r.m
        /\ file' = r.file
        /\ ret' = r.ret
    /\ call' = Call("on_edit_button", dlg.product, <<>>, 0)
    /\ dlg' = [dlg EXCEPT !.kind = "edit accepted"]
    /\ pc' = "returned"
    /\ before' = markets
    /\ fileBefore' = file
    /\ fault' = FALSE

\* on_edit_button after ShowModal returned wx.ID_CANCEL
EditCancel ==
    /\ dlg.kind = "edit"
    /\ dlg' = NoDialog
    /\ DialogStep

NextEdit ==
    \/ UpdateProduct
    \/ OnEditButton
    \/ EditNameEdited
    \/ EditRestoreName
    \/ EditRemoveMarket
    \/ EditAddMarket
    \/ EditAccept
    \/ EditCancel
    \/ Return

SpecEdit == Init /\ [][NextEdit]_vars

(* ------------------------------ claims --------------------------------- *)

IsDelete == call.fn = "delete_product"

IsDeleteStr == IsDelete /\ ~call.isList

IsDeleteList == IsDelete /\ call.isList

\* C1: find_product returns its (vendor, price) pairs by ascending price:
\* each pair's price is at most the price of the pair that follows it.
C1_FindSortedByPrice ==
    call.fn = "find_product" =>
        \A i \in 1..(Len(ret.l) - 1) : ret.l[i][2] <= ret.l[i + 1][2]

\* C2: delete_product(P, "all") removes P from every catalog that contains
\* it, removes the vendors it empties, and leaves every other entry as it was.
C2_DeleteAllRemovesEverywhere ==
    (IsDeleteStr /\ call.in_market = all) =>
        LET stripped == [i \in 1..Len(before) |->
                            [key |-> before[i].key,
                             val |-> SelectSeq(before[i].val,
                                               LAMBDA e : e.key # call.product)]]
        IN  markets = SelectSeq(stripped, LAMBDA e : e.val # <<>>)

\* C3: after update_product, and after a delete_product that returned True
\* (either mode), the persisted document holds the in-memory ledger.
C3_PersistedAfterSuccess ==
    (\/ call.fn = "update_product" /\ ret.exc = ""
     \/ IsDelete /\ ret.exc = "" /\ ret.b)
        => json_load(file) = markets

\* C4: delete_product(P, "all") returns True and raises nothing, whatever the
\* ledger; when no vendor carries P the ledger is unchanged.
C4_DeleteAllAlwaysSucceeds ==
    (IsDeleteStr /\ call.in_market = all) =>
        /\ ret.exc = ""
        /\ ret.kind = "bool"
        /\ ret.b
        /\ (\A i \in 1..Len(before) : ~DictHas(before[i].val, call.product))
              => markets = before

\* C5: no vendor of the ledger has an empty catalog, after any sequence of
\* calls; a vendor that carried a single product and lost it is gone.
C5_NoEmptyCatalog ==
    /\ \A i \in 1..Len(markets) : markets[i].val # <<>>
    /\ \A i \in 1..Len(before) :
          (/\ Len(before[i].val) = 1
           /\ ~Carries(markets, before[i].key, before[i].val[1].key))
              => ~DictHas(markets, before[i].key)

\* A delete_product that returned True took the only product of its vendor.
C5_Witness ==
    /\ IsDeleteStr
    /\ ret.exc = ""
    /\ ret.b
    /\ \E i \in 1..Len(before) :
          /\ before[i].key = call.in_market
          /\ Len(before[i].val) = 1
          /\ before[i].val[1].key = call.product
    /\ ~DictHas(markets, call.in_market)

\* C6: delete_product(P, [V1..Vn]) with distinct vendors that all carry P
\* removes P from each of them, prunes the emptied ones, persists and
\* returns True.
C6_ListDeleteSucceeds ==
    (/\ IsDeleteList
     /\ Len(call.targets) > 0
     /\ \A j, k \in 1..Len(call.targets) :
           call.targets[j] = call.targets[k] => j = k
     /\ \A k \in 1..Len(call.targets) :
           Carries(before, call.targets[k], call.product))
        => /\ ret.exc = ""
           /\ ret.kind = "bool"
           /\ ret.b
           /\ \A k \in 1..Len(call.targets) :
                 ~Carries(markets, call.targets[k], call.product)
           /\ \A i \in 1..Len(markets) : markets[i].val # <<>>
           /\ json_load(file) = markets

\* C7: delete_product(P, [V1..Vn]) with a named vendor that is absent or does
\* not carry P returns False and raises nothing.
C7_ListDeleteReportsFailure ==
    (/\ IsDeleteList
     /\ \E k \in 1..Len(call.targets) :
           ~Carries(before, call.targets[k], call.product))
        => /\ ret.exc = ""
           /\ ret.kind = "bool"
           /\ ~ret.b

\* C8: delete_product(P, V) with one vendor name V that is absent or does not
\* carry P returns False and leaves the ledger and the document as they were.
C8_StrDeleteMissingIsNoop ==
    (/\ IsDeleteStr
     /\ call.in_market # all
     /\ ~Carries(before, call.in_market, call.product))
        => /\ ret.exc = ""
           /\ ret.kind = "bool"
           /\ ~ret.b
           /\ markets = before
           /\ file = fileBefore

\* C9: delete_product(P, V) with one vendor name V that carries P removes the
\* entry (V, P) and nothing else, removes V if that empties it, persists and
\* returns True.
C9_StrDeleteRemovesExactlyEntry ==
    (/\ IsDeleteStr
     /\ call.in_market # all
     /\ Carries(before, call.in_market, call.product))
        => LET stripped == [i \in 1..Len(before) |->
                              IF before[i].key = call.in_market
                              THEN [key |-> before[i].key,
                                    val |-> SelectSeq(before[i].val,
                                                      LAMBDA e : e.key # call.product)]
                              ELSE before[i]]
           IN  /\ ret.exc = ""
               /\ ret.kind = "bool"
               /\ ret.b
               /\ markets = SelectSeq(stripped, LAMBDA e : e.val # <<>>)
               /\ json_load(file) = markets

\* C10: after update_product(P, V, c), find_product(P) holds the pair (V, c)
\* once and no other pair of vendor V.
C10_UpdateThenFind ==
    call.fn = "update_product" =>
        LET f == find_product(markets, call.product)
        IN  /\ Cardinality({i \in 1..Len(f) : f[i][1] = call.in_market}) = 1
            /\ Cardinality({i \in 1..Len(f) : f[i] = <<call.in_market, call.cost>>}) = 1

\* update_product overwrote another price of (V, P) while a second vendor
\* carries P as well.
C10_Witness ==
    /\ call.fn = "update_product"
    /\ Carries(before, call.in_market, call.product)
    /\ DictGet(DictGet(before, call.in_market), call.product) # call.cost
    /\ \E i \in 1..Len(before) :
          before[i].key # call.in_market /\ DictHas(before[i].val, call.product)

\* C11: find_product(P) returns one pair (V, Ledger[V][P]) for every vendor V
\* whose catalog holds a name equal to P, case included, and no other pair;
\* it returns the empty list when no vendor carries P and never raises.
C11_FindExactMatches ==
    call.fn = "find_product" =>
        /\ ret.exc = ""
        /\ ret.kind = "list"
        /\ \A i \in 1..Len(before) :
              DictHas(before[i].val, call.product) =>
                 /\ Cardinality({k \in 1..Len(ret.l) : ret.l[k][1] = before[i].key}) = 1
                 /\ \E k \in 1..Len(ret.l) :
                       ret.l[k] = <<before[i].key, DictGet(before[i].val, call.product)>>
        /\ \A k \in 1..Len(ret.l) :
              /\ Carries(before, ret.l[k][1], call.product)
              /\ ret.l[k][2] = DictGet(DictGet(before, ret.l[k][1]), call.product)
        /\ (\A i \in 1..Len(before) : ~DictHas(before[i].val, call.product))
              => ret.l = <<>>

\* find_product found its product at two vendors while another name, or a
\* second vendor's other product, was left out.
C11_Witness ==
    /\ call.fn = "find_product"
    /\ Len(ret.l) = 2
    /\ Len(before) = 2

\* C12: in the result of find_product, two pairs of equal price stand in the
\* order in which the ledger holds their vendors.
C12_TiesInVendorOrder ==
    call.fn = "find_product" =>
        \A i, j \in 1..Len(ret.l) :
            (i < j /\ ret.l[i][2] = ret.l[j][2]) =>
                (CHOOSE k \in 1..Len(before) : before[k].key = ret.l[i][1])
                  < (CHOOSE k \in 1..Len(before) : before[k].key = ret.l[j][1])

\* find_product returned two pairs of the same price.
C12_Witness ==
    /\ call.fn = "find_product"
    /\ Len(ret.l) = 2
    /\ ret.l[1][2] = ret.l[2][2]

\* C13: update_product(P, V, c) called again with the same arguments leaves
\* the ledger and the document as the first call left them.
C13_UpdateIdempotent ==
    (call.fn = "update_product" /\ ret.exc = "") =>
        /\ update_product(markets, call.product, call.in_market, call.cost) = markets
        /\ update_json(update_product(markets, call.product, call.in_market, call.cost))
             = file

\* update_product was called with the arguments of the call before it: the
\* entry was there with that price already.
C13_Witness ==
    /\ call.fn = "update_product"
    /\ ret.exc = ""
    /\ Carries(before, call.in_market, call.product)
    /\ DictGet(DictGet(before, call.in_market), call.product) = call.cost
    /\ markets = before
    /\ file = fileBefore

\* C14: on a ledger that holds a product, list_products returns every product
\* name of the ledger once, and no other name, in the order of the names'
\* first occurrences (vendors in ledger order, products in catalog order).
C14_ListDistinctFirstSeen ==
    (call.fn = "list_products" /\ \E i \in 1..Len(before) : before[i].val # <<>>) =>
        LET Pos(name) ==
                CHOOSE p \in (1..Len(before)) \X (1..MaxEntries + 1) :
                    /\ p[2] <= Len(before[p[1]].val)
                    /\ before[p[1]].val[p[2]].key = name
                    /\ \A i \in 1..Len(before) : \A j \in 1..Len(before[i].val) :
                          before[i].val[j].key = name =>
                              (p[1] < i \/ (p[1] = i /\ p[2] <= j))
        IN  /\ ret.exc = ""
            /\ ret.kind = "list"
            /\ \A i, j \in 1..Len(ret.l) : ret.l[i] = ret.l[j] => i = j
            /\ \A i \in 1..Len(before) : \A j \in 1..Len(before[i].val) :
                  \E k \in 1..Len(ret.l) : ret.l[k] = before[i].val[j].key
            /\ \A k \in 1..Len(ret.l) :
                  \E i \in 1..Len(before) : DictHas(before[i].val, ret.l[k])
            /\ \A i, j \in 1..Len(ret.l) :
                  i < j => (\/ Pos(ret.l[i])[1] < Pos(ret.l[j])[1]
                            \/ /\ Pos(ret.l[i])[1] = Pos(ret.l[j])[1]
                               /\ Pos(ret.l[i])[2] < Pos(ret.l[j])[2])

\* list_products ran on a ledger in which two vendors carry the same product.
C14_Witness ==
    /\ call.fn = "list_products"
    /\ ret.kind = "list"
    /\ Len(before) = 2
    /\ before[1].val[1].key = before[2].val[1].key
    /\ Len(ret.l) = 1

\* C15: list_products returns None exactly when no vendor carries a product,
\* and never raises.
C15_ListNoneIffEmpty ==
    call.fn = "list_products" =>
        /\ ret.exc = ""
        /\ ret.kind = "None" <=> (\A i \in 1..Len(before) : before[i].val = <<>>)

\* list_products ran on a ledger that deletions have emptied: the document
\* still holds the entries.
C15_Witness ==
    /\ call.fn = "list_products"
    /\ ret.kind = "None"
    /\ markets = <<>>
    /\ file # <<TokOpen, TokClose>>

\* C17: the document that update_json wrote, loaded again, is the ledger:
\* the same vendors, the same products under each, the same prices.
C17_RoundTrip ==
    /\ json_load(update_json(markets)) = markets
    /\ (call.fn = "update_product" /\ ret.exc = "") => json_load(file) = markets

\* update_product persisted a ledger whose vendor carries two products at
\* different prices.
C17_Witness ==
    /\ call.fn = "update_product"
    /\ ret.exc = ""
    /\ \E i \in 1..Len(markets) :
          /\ Len(markets[i].val) = 2
          /\ markets[i].val[1].val # markets[i].val[2].val

\* C16: when the write of update_product fails, update_product raises and
\* does not return; it raises in no other case.
C16_WriteFaultPropagates ==
    call.fn = "update_product" =>
        /\ fault => (ret.kind = "raise" /\ ret.exc = "OSError")
        /\ ret.exc # "" => fault

\* update_product raised on a failed write that left the document short of
\* the ledger.
C16_Witness ==
    /\ call.fn = "update_product"
    /\ fault
    /\ ret.exc = "OSError"
    /\ markets # before
    /\ file # json_dump(markets)

\* C19: in the New-product dialog the OK button is enabled only if the
\* product name is valid and the market list holds a market.
C19_NewOKNeedsNameAndMarket ==
    (dlg.kind = "new" /\ dlg.OK_button) =>
        /\ IsValidName(dlg.product_name)
        /\ Len(dlg.market_list) >= 1

\* OK is enabled in a New-product dialog from whose list a market has been
\* removed.
C19_Witness ==
    /\ dlg.kind = "new"
    /\ dlg.OK_button
    /\ Len(dlg.market_list) = 1
    /\ Len(markets) > 0

\* C18: after the Edit dialog of product P is accepted with name N and market
\* list L, the markets that carry N are the markets of L, at L's prices (the
\* last entry of a market counts), and if N differs from P no market carries P.
C18_EditWritesExactlyTheList ==
    dlg.kind = "edit accepted" =>
        LET L == [i \in 1..Len(dlg.market_list) |-> ParseEntry(dlg.market_list[i])]
        IN  /\ \A i \in 1..Len(L) :
                  /\ Carries(markets, L[i].market, dlg.product_name)
                  /\ (\A j \in (i + 1)..Len(L) : L[j].market # L[i].market)
                        => DictGet(DictGet(markets, L[i].market), dlg.product_name)
                             = L[i].price
            /\ \A v \in 1..Len(markets) :
                  DictHas(markets[v].val, dlg.product_name)
                      => \E i \in 1..Len(L) : L[i].market = markets[v].key
            /\ dlg.product_name # dlg.product
                  => \A v \in 1..Len(markets) : ~DictHas(markets[v].val, dlg.product)

\* C20: in the Edit dialog the remove button is enabled only while the list
\* holds two entries or more, the list is never empty, and an accepted edit
\* leaves the product in a market.
C20_EditKeepsAMarket ==
    /\ dlg.kind = "edit" =>
          /\ dlg.market_remove => Len(dlg.market_list) >= 2
          /\ Len(dlg.market_list) >= 1
    /\ dlg.kind = "edit accepted" =>
          /\ Len(dlg.market_list) >= 1
          /\ \E v \in 1..Len(markets) : DictHas(markets[v].val, dlg.product_name)

\* C21: delete_product(P, V) with the name V of a vendor of the ledger, "All"
\* included, leaves every other vendor's catalog as it was and returns False
\* when V does not carry P.
C21_VendorNameIsNeverSentinel ==
    (/\ IsDeleteStr
     /\ DictHas(before, call.in_market))
        => /\ \A i \in 1..Len(before) :
                 before[i].key # call.in_market
                     => /\ DictHas(markets, before[i].key)
                        /\ DictGet(markets, before[i].key) = before[i].val
           /\ ~Carries(before, call.in_market, call.product)
                 => /\ ret.exc = ""
                    /\ ret.kind = "bool"
                    /\ ~ret.b

\* C22: accepting the New-product dialog with a name that some vendor carries
\* leaves the ledger and the document as they were; the ledger changes only
\* when find_product of the entered name was empty.
C22_NewKeepsExistingProduct ==
    dlg.kind = "new accepted" =>
        /\ find_product(before, dlg.product_name) # <<>>
              => markets = before /\ file = fileBefore
        /\ markets # before => find_product(before, dlg.product_name) = <<>>

\* the dialog was accepted with the name of a carried product and an entry
\* whose price differs from the ledger's price of that vendor
C22_Witness ==
    /\ dlg.kind = "new accepted"
    /\ find_product(before, dlg.product_name) # <<>>
    /\ \E i \in 1..Len(dlg.market_list) :
          LET e == ParseEntry(dlg.market_list[i]) IN
          /\ Carries(before, e.market, dlg.product_name)
          /\ DictGet(DictGet(before, e.market), dlg.product_name) # e.price

\* C23: update_product(P, V, c) keeps every vendor and every product of the
\* ledger at its place, keeps the price of every entry other than (V, P), and
\* adds no entry other than (V, P).
C23_UpdateChangesOneEntry ==
    call.fn = "update_product" =>
        /\ Len(markets) >= Len(before)
        /\ \A i \in 1..Len(before) :
              /\ markets[i].key = before[i].key
              /\ Len(markets[i].val) >= Len(before[i].val)
              /\ \A j \in 1..Len(before[i].val) :
                    /\ markets[i].val[j].key = before[i].val[j].key
                    /\ (before[i].key # call.in_market
                            \/ before[i].val[j].key # call.product)
                          => markets[i].val[j].val = before[i].val[j].val
        /\ \A i \in 1..Len(markets) : \A j \in 1..Len(markets[i].val) :
              (markets[i].key # call.in_market \/ markets[i].val[j].key # call.product)
                  => Carries(before, markets[i].key, markets[i].val[j].key)

\* update_product overwrote the price of an entry that another entry follows
\* in the ledger, in a later vendor or later in the same catalog
C23_Witness ==
    /\ call.fn = "update_product"
    /\ Carries(before, call.in_market, call.product)
    /\ DictGet(DictGet(before, call.in_market), call.product) # call.cost
    /\ \/ before[Len(before)].key # call.in_market
       \/ LET c == DictGet(before, call.in_market) IN c[Len(c)].key # call.product

\* C24: find_product and list_products leave the ledger and the document as
\* they were before the call.
C24_ReadsChangeNothing ==
    call.fn \in {"find_product", "list_products"} =>
        /\ markets = before
        /\ file = fileBefore

\* find_product found the product while the document no longer matches the
\* ledger, so a write of the ledger would show
C24_Witness ==
    /\ call.fn = "find_product"
    /\ ret.kind = "list"
    /\ ret.l # <<>>
    /\ json_load(fileBefore) # before

====
